---- MODULE Spec2Model ----
(***************************************************************************)
(* Smart-home device registry (Práctica3.py): the device state machines    *)
(* (LuzInteligente, CamaraSeguridad, SensorMovimiento), the registry       *)
(* CasaInteligente and its scene "alerta_movimiento".                      *)
(*                                                                         *)
(* Every method call is one atomic action: the program is single-threaded  *)
(* and synchronous.  The call just made is kept in ultima, with the state  *)
(* it started from, until the caller goes on (Seguir).  Of the console     *)
(* output only the outcome a call reports is kept (ultima.sal).  An object *)
(* attribute that no executed statement has assigned is a field missing    *)
(* from the object's record; reading it raises AttributeError, which ends  *)
(* the call.                                                               *)
(***************************************************************************)
EXTENDS Integers, Sequences, FiniteSets

\* ------------------------------------------------------------ bounds
\* Longest registry list the model builds.
MaxDispositivos == 3
\* How far beyond 0..100 the intensity arguments tried reach on each side.
Exceso == 1

\* ------------------------------------------------------------ program constants
IntensidadMin == 0
IntensidadMax == 100
IntensidadPorDefecto == 50
IntensidadAlerta == 100
IntensidadTenue == 20

\* ------------------------------------------------------------ objects
\* An object that is no Dispositivo, offered to agregar_dispositivo.
NoDispositivo == "no-dispositivo"
Escenas == {"alerta_movimiento", "modo_noche"}

\* Intensity arguments tried, in the constructor and in the setter.
Valores ==
    (IntensidadMin - Exceso .. IntensidadMin - 1)
        \cup {IntensidadMin, IntensidadTenue, IntensidadPorDefecto, IntensidadMax}
        \cup (IntensidadMax + 1 .. IntensidadMax + Exceso)

Ninguno == "None"
AttributeError == "AttributeError"
Ok == "ok"

VARIABLES
    luz,      \* luz[l]    = [estado, intensidad]
    camara,   \* camara[c] = [estado, grabando]
    sensor,   \* sensor[s] = [estado] or [estado, movimiento_detectado]
    casa,     \* casa[h]   = [clase] or [clase, dispositivos]
    ultima    \* the call just made, until the caller goes on: [op, obj, arg, res, sal, antes]

vars == <<luz, camara, sensor, casa, ultima>>

\* The objects constructed, by class: isinstance(d, LuzInteligente) is d \in Luces.
Luces == DOMAIN luz
Camaras == DOMAIN camara
Sensores == DOMAIN sensor
\* isinstance(d, Dispositivo)
Dispositivos == Luces \cup Camaras \cup Sensores
\* The registries constructed.
Casas == DOMAIN casa

\* The program state a call starts from, kept with the call.
Foto == [luz |-> luz, camara |-> camara, sensor |-> sensor, casa |-> casa]

\* op: the method; obj: the object it was called on; arg: its argument;
\* res: Ok when it returned, AttributeError when it raised; sal: what it
\* reported on the console, where a claim is about it.
Llamada(op, obj, arg, res, sal) ==
    [op |-> op, obj |-> obj, arg |-> arg, res |-> res, sal |-> sal, antes |-> Foto]

\* The record while the caller is between two calls.
EntreLlamadas ==
    [op |-> Ninguno, obj |-> Ninguno, arg |-> Ninguno, res |-> Ok, sal |-> Ninguno,
     antes |-> Ninguno]

Libre == ultima.op = Ninguno

\* ------------------------------------------------------------ Dispositivo
\* Dispositivo.__init__: every device starts "apagado".
Dispositivo_init == [estado |-> "apagado"]

\* ------------------------------------------------------------ LuzInteligente
LuzInteligente_init(intensidad) ==
    [estado |-> Dispositivo_init.estado, intensidad |-> intensidad]

\* A slip: only the upper end of the range is checked.
SetIntensidadSinMinimo(l, valor) ==
    IF valor <= IntensidadMax
    THEN [l EXCEPT !.intensidad = valor]
    ELSE l

LuzInteligente_set_intensidad(l, valor) ==
    IF IntensidadMin <= valor /\ valor <= IntensidadMax
    THEN [l EXCEPT !.intensidad = valor]
    ELSE l

\* A slip: the default intensity is set whatever the intensity was.
EncenderSiemprePorDefecto(l) ==
    [l EXCEPT !.estado = "encendido", !.intensidad = IntensidadPorDefecto]

LuzInteligente_encender(l) ==
    LET l1 == [l EXCEPT !.estado = "encendido"]
    IN  IF l1.intensidad = 0
        THEN [l1 EXCEPT !.intensidad = IntensidadPorDefecto]
        ELSE l1

\* A slip: the intensity is kept across power-off.
ApagarSinReiniciar(l) ==
    [l EXCEPT !.estado = "apagado"]

LuzInteligente_apagar(l) ==
    [l EXCEPT !.estado = "apagado", !.intensidad = 0]

\* ------------------------------------------------------------ CamaraSeguridad
CamaraSeguridad_init ==
    [estado |-> Dispositivo_init.estado, grabando |-> FALSE]

CamaraSeguridad_encender(c) ==
    [c EXCEPT !.estado = "standby"]

CamaraSeguridad_detener_grabacion(c) ==
    IF c.grabando
    THEN [c EXCEPT !.grabando = FALSE, !.estado = "standby"]
    ELSE c

CamaraSeguridad_apagar(c) ==
    LET c1 == [c EXCEPT !.estado = "apagado"]
    IN  IF c1.grabando THEN CamaraSeguridad_detener_grabacion(c1) ELSE c1

\* A slip: recording starts whatever the camera's state is.
IniciarSinMirarEstado(c) ==
    [c EXCEPT !.grabando = TRUE, !.estado = "grabando"]

CamaraSeguridad_iniciar_grabacion(c) ==
    IF c.estado = "standby"
    THEN [c EXCEPT !.grabando = TRUE, !.estado = "grabando"]
    ELSE c

\* ------------------------------------------------------------ SensorMovimiento
\* SensorMovimiento defines _init_, which no construction calls: the object
\* is built by Dispositivo.__init__ alone and has no _movimiento_detectado.
SensorMovimiento_init == Dispositivo_init

TieneMovimiento(s) == "movimiento_detectado" \in DOMAIN s

\* A slip: activating keeps a motion flag the sensor already has.
EncenderSinReiniciar(s) ==
    IF TieneMovimiento(s)
    THEN [estado |-> "activo", movimiento_detectado |-> s.movimiento_detectado]
    ELSE [estado |-> "activo", movimiento_detectado |-> FALSE]

SensorMovimiento_encender(s) ==
    [estado |-> "activo", movimiento_detectado |-> FALSE]

SensorMovimiento_apagar(s) ==
    [estado |-> "inactivo", movimiento_detectado |-> FALSE]

SensorMovimiento_simular_movimiento(s) ==
    IF s.estado = "activo"
    THEN [estado |-> s.estado, movimiento_detectado |-> TRUE]
    ELSE s

\* ------------------------------------------------------------ CasaInteligente
\* CasaInteligente defines _init_, which no construction calls: the object
\* has no _dispositivos (and no nombre) until _init_ is called as a method.
CasaInteligente_new == [clase |-> "CasaInteligente"]

TieneDispositivos(h) == "dispositivos" \in DOMAIN h

CasaInteligente_init(h, nombre) ==
    [clase |-> h.clase, nombre |-> nombre, dispositivos |-> <<>>]

\* agregar_dispositivo: [res, casa] for object o offered to registry h.
CasaInteligente_agregar_dispositivo(h, o) ==
    IF o \in Dispositivos
    THEN IF TieneDispositivos(h)
         THEN [res |-> Ok, sal |-> "agregado",
               casa |-> [h EXCEPT !.dispositivos = Append(@, o)]]
         ELSE [res |-> AttributeError, sal |-> Ninguno, casa |-> h]
    ELSE [res |-> Ok, sal |-> "Error", casa |-> h]

\* mostrar_datos of device d: [res, linea], linea being the line it prints.
\* SensorMovimiento.mostrar_datos reads movimiento_detectado.
MostrarDatos(d, st) ==
    IF d \in DOMAIN st.luz
    THEN [res |-> Ok,
          linea |-> [id |-> d, estado |-> st.luz[d].estado,
                     intensidad |-> st.luz[d].intensidad]]
    ELSE IF d \in DOMAIN st.camara
    THEN [res |-> Ok,
          linea |-> [id |-> d, estado |-> st.camara[d].estado,
                     grabando |-> st.camara[d].grabando]]
    ELSE IF TieneMovimiento(st.sensor[d])
    THEN [res |-> Ok,
          linea |-> [id |-> d, estado |-> st.sensor[d].estado,
                     movimiento |-> st.sensor[d].movimiento_detectado]]
    ELSE [res |-> AttributeError, linea |-> Ninguno]

\* The loop of mostrar_todos from position i on, sal being the lines printed.
RECURSIVE MostrarDesde(_, _, _, _)
MostrarDesde(ds, i, st, sal) ==
    IF i > Len(ds)
    THEN [res |-> Ok, sal |-> sal]
    ELSE LET r == MostrarDatos(ds[i], st)
         IN  IF r.res = AttributeError
             THEN [res |-> AttributeError, sal |-> sal]
             ELSE MostrarDesde(ds, i + 1, st, Append(sal, r.linea))

CasaInteligente_mostrar_todos(h, st) ==
    IF ~TieneDispositivos(h)
    THEN [res |-> AttributeError, sal |-> <<>>]
    ELSE MostrarDesde(h.dispositivos, 1, st, <<>>)

\* Step 1 of the scene: the first sensor of the list, from position i on,
\* whose movimiento_detectado is true; Ninguno when there is none;
\* AttributeError when the scan reads a sensor that has no such attribute.
\* A slip: the first sensor that has the attribute is taken, whatever its flag.
RECURSIVE BuscarSinMirarBandera(_, _, _)
BuscarSinMirarBandera(ds, i, sen) ==
    IF i > Len(ds)
    THEN Ninguno
    ELSE IF ds[i] \in DOMAIN sen
         THEN IF ~TieneMovimiento(sen[ds[i]])
              THEN AttributeError
              ELSE ds[i]
         ELSE BuscarSinMirarBandera(ds, i + 1, sen)

\* A slip: the scan has no break, so the last flagged sensor is kept.
RECURSIVE BuscarSinBreak(_, _, _)
BuscarSinBreak(ds, i, sen) ==
    IF i > Len(ds)
    THEN Ninguno
    ELSE LET resto == BuscarSinBreak(ds, i + 1, sen)
         IN  IF ds[i] \in DOMAIN sen
             THEN IF ~TieneMovimiento(sen[ds[i]])
                  THEN AttributeError
                  ELSE IF sen[ds[i]].movimiento_detectado /\ resto = Ninguno
                       THEN ds[i]
                       ELSE resto
             ELSE resto

RECURSIVE BuscarSensor(_, _, _)
BuscarSensor(ds, i, sen) ==
    IF i > Len(ds)
    THEN Ninguno
    ELSE IF ds[i] \in DOMAIN sen
         THEN IF ~TieneMovimiento(sen[ds[i]])
              THEN AttributeError
              ELSE IF sen[ds[i]].movimiento_detectado
                   THEN ds[i]
                   ELSE BuscarSensor(ds, i + 1, sen)
         ELSE BuscarSensor(ds, i + 1, sen)

\* The scene's command to one light: encender(), then intensidad = 100.
EscenaLuz(l) ==
    LuzInteligente_set_intensidad(LuzInteligente_encender(l), IntensidadAlerta)

\* The scene's command to one camera: encender() if off, then iniciar_grabacion().
EscenaCamara(c) ==
    CamaraSeguridad_iniciar_grabacion(
        IF c.estado = "apagado" THEN CamaraSeguridad_encender(c) ELSE c)

\* Step 2 of the scene: the commands to the devices of the list from
\* position i on; st = [luz, camara, sensor]. No command goes to a sensor.
RECURSIVE Activar(_, _, _)
Activar(ds, i, st) ==
    IF i > Len(ds)
    THEN st
    ELSE LET d == ds[i]
             st1 == IF d \in DOMAIN st.luz
                    THEN [st EXCEPT !.luz[d] = EscenaLuz(@)]
                    ELSE st
             st2 == IF d \in DOMAIN st.camara
                    THEN [st1 EXCEPT !.camara[d] = EscenaCamara(@)]
                    ELSE st1
         IN  Activar(ds, i + 1, st2)

\* The result of a scene: [res, sal, luz, camara, sensor].
FinEscena(res, sal, dev) ==
    [res |-> res, sal |-> sal, luz |-> dev.luz, camara |-> dev.camara,
     sensor |-> dev.sensor]

\* A slip: the alert is consumed, the reporting sensor's flag being reset.
AlertaConsumida(h, st) ==
    IF ~TieneDispositivos(h)
    THEN FinEscena(AttributeError, Ninguno, st)
    ELSE LET sensor_activado == BuscarSensor(h.dispositivos, 1, st.sensor)
         IN  IF sensor_activado = AttributeError
             THEN FinEscena(AttributeError, Ninguno, st)
             ELSE IF sensor_activado # Ninguno
             THEN FinEscena(Ok, sensor_activado,
                     Activar(h.dispositivos, 1,
                         [st EXCEPT !.sensor[sensor_activado].movimiento_detectado = FALSE]))
             ELSE FinEscena(Ok, "sin_movimiento", st)

\* The branch of ejecutar_escena for "alerta_movimiento".
AlertaMovimiento(h, st) ==
    LET igual == [luz |-> st.luz, camara |-> st.camara, sensor |-> st.sensor]
    IN  IF ~TieneDispositivos(h)
        THEN FinEscena(AttributeError, Ninguno, igual)
        ELSE LET sensor_activado == BuscarSensor(h.dispositivos, 1, st.sensor)
             IN  IF sensor_activado = AttributeError
                 THEN FinEscena(AttributeError, Ninguno, igual)
                 ELSE IF sensor_activado # Ninguno
                 THEN FinEscena(Ok, sensor_activado, Activar(h.dispositivos, 1, igual))
                 ELSE FinEscena(Ok, "sin_movimiento", igual)

\* A slip: the scene's name is not looked at.
EscenaSinMirarNombre(h, nombre_escena, st) ==
    AlertaMovimiento(h, st)

CasaInteligente_ejecutar_escena(h, nombre_escena, st) ==
    IF nombre_escena = "alerta_movimiento"
    THEN AlertaMovimiento(h, st)
    ELSE FinEscena(Ok, "no_reconocida", st)

\* ------------------------------------------------------------ initial state
\* The state after constructing registries hs, lights ls (each with some
\* intensity argument), cameras cs and sensors ss.
ConstruidosEn(hs, ls, cs, ss) ==
    /\ luz \in {[l \in ls |-> LuzInteligente_init(f[l])] : f \in [ls -> Valores]}
    /\ camara = [c \in cs |-> CamaraSeguridad_init]
    /\ sensor = [s \in ss |-> SensorMovimiento_init]
    /\ casa = [h \in hs |-> CasaInteligente_new]
    /\ ultima = EntreLlamadas

\* One registry, as in the simulation.
Construidos(ls, cs, ss) == ConstruidosEn({"Hogar Principal"}, ls, cs, ss)

\* One device of each class.
Init == Construidos({"LUZ-SALA-01"}, {"CAM-ENTRADA-01"}, {"SEN-PUERTA-01"})

\* Two sensors and a light.
InitDosSensores == Construidos({"LUZ-SALA-01"}, {}, {"SEN-PUERTA-01", "SEN-PATIO-01"})

\* Two registries, a light and a sensor.
InitDosCasas ==
    ConstruidosEn({"Hogar Principal", "Casa de Campo"}, {"LUZ-SALA-01"}, {},
                  {"SEN-PUERTA-01"})

\* ------------------------------------------------------------ device actions
LuzEncender(l) ==
    /\ Libre
    /\ luz' = [luz EXCEPT ![l] = LuzInteligente_encender(@)]
    /\ ultima' = Llamada("luz.encender", l, Ninguno, Ok, Ninguno)
    /\ UNCHANGED <<camara, sensor, casa>>

LuzApagar(l) ==
    /\ Libre
    /\ luz' = [luz EXCEPT ![l] = LuzInteligente_apagar(@)]
    /\ ultima' = Llamada("luz.apagar", l, Ninguno, Ok, Ninguno)
    /\ UNCHANGED <<camara, sensor, casa>>

LuzSetIntensidad(l, valor) ==
    /\ Libre
    /\ luz' = [luz EXCEPT ![l] = LuzInteligente_set_intensidad(@, valor)]
    /\ ultima' = Llamada("luz.intensidad", l, valor, Ok, Ninguno)
    /\ UNCHANGED <<camara, sensor, casa>>

CamaraEncender(c) ==
    /\ Libre
    /\ camara' = [camara EXCEPT ![c] = CamaraSeguridad_encender(@)]
    /\ ultima' = Llamada("camara.encender", c, Ninguno, Ok, Ninguno)
    /\ UNCHANGED <<luz, sensor, casa>>

CamaraApagar(c) ==
    /\ Libre
    /\ camara' = [camara EXCEPT ![c] = CamaraSeguridad_apagar(@)]
    /\ ultima' = Llamada("camara.apagar", c, Ninguno, Ok, Ninguno)
    /\ UNCHANGED <<luz, sensor, casa>>

CamaraIniciarGrabacion(c) ==
    /\ Libre
    /\ camara' = [camara EXCEPT ![c] = CamaraSeguridad_iniciar_grabacion(@)]
    /\ ultima' = Llamada("camara.iniciar_grabacion", c, Ninguno, Ok, Ninguno)
    /\ UNCHANGED <<luz, sensor, casa>>

CamaraDetenerGrabacion(c) ==
    /\ Libre
    /\ camara' = [camara EXCEPT ![c] = CamaraSeguridad_detener_grabacion(@)]
    /\ ultima' = Llamada("camara.detener_grabacion", c, Ninguno, Ok, Ninguno)
    /\ UNCHANGED <<luz, sensor, casa>>

SensorEncender(s) ==
    /\ Libre
    /\ sensor' = [sensor EXCEPT ![s] = SensorMovimiento_encender(@)]
    /\ ultima' = Llamada("sensor.encender", s, Ninguno, Ok, Ninguno)
    /\ UNCHANGED <<luz, camara, casa>>

SensorApagar(s) ==
    /\ Libre
    /\ sensor' = [sensor EXCEPT ![s] = SensorMovimiento_apagar(@)]
    /\ ultima' = Llamada("sensor.apagar", s, Ninguno, Ok, Ninguno)
    /\ UNCHANGED <<luz, camara, casa>>

SensorSimularMovimiento(s) ==
    /\ Libre
    /\ sensor' = [sensor EXCEPT ![s] = SensorMovimiento_simular_movimiento(@)]
    /\ ultima' = Llamada("sensor.simular_movimiento", s, Ninguno, Ok, Ninguno)
    /\ UNCHANGED <<luz, camara, casa>>

\* ------------------------------------------------------------ registry actions
CasaInit(h) ==
    /\ Libre
    /\ casa' = [casa EXCEPT ![h] = CasaInteligente_init(@, h)]
    /\ ultima' = Llamada("casa._init_", h, h, Ok, Ninguno)
    /\ UNCHANGED <<luz, camara, sensor>>

AgregarDispositivo(h, o) ==
    LET r == CasaInteligente_agregar_dispositivo(casa[h], o)
    IN  /\ Libre
        /\ TieneDispositivos(casa[h]) => Len(casa[h].dispositivos) < MaxDispositivos
        /\ casa' = [casa EXCEPT ![h] = r.casa]
        /\ ultima' = Llamada("casa.agregar_dispositivo", h, o, r.res, r.sal)
        /\ UNCHANGED <<luz, camara, sensor>>

MostrarTodos(h) ==
    LET r == CasaInteligente_mostrar_todos(casa[h], Foto)
    IN  /\ Libre
        /\ ultima' = Llamada("casa.mostrar_todos", h, Ninguno, r.res, r.sal)
        /\ UNCHANGED <<luz, camara, sensor, casa>>

EjecutarEscena(h, nombre_escena) ==
    LET r == CasaInteligente_ejecutar_escena(casa[h], nombre_escena, Foto)
    IN  /\ Libre
        /\ luz' = r.luz
        /\ camara' = r.camara
        /\ sensor' = r.sensor
        /\ ultima' = Llamada("casa.ejecutar_escena", h, nombre_escena, r.res, r.sal)
        /\ UNCHANGED casa

\* The call has returned (or raised) and the caller goes on to its next call.
Seguir ==
    /\ ~Libre
    /\ ultima' = EntreLlamadas
    /\ UNCHANGED <<luz, camara, sensor, casa>>

LlamadaLuz ==
    \/ \E l \in Luces : LuzEncender(l)
    \/ \E l \in Luces : LuzApagar(l)
    \/ \E l \in Luces, v \in Valores : LuzSetIntensidad(l, v)

LlamadaCamara ==
    \/ \E c \in Camaras : CamaraEncender(c)
    \/ \E c \in Camaras : CamaraApagar(c)
    \/ \E c \in Camaras : CamaraIniciarGrabacion(c)
    \/ \E c \in Camaras : CamaraDetenerGrabacion(c)

LlamadaSensor ==
    \/ \E s \in Sensores : SensorEncender(s)
    \/ \E s \in Sensores : SensorApagar(s)
    \/ \E s \in Sensores : SensorSimularMovimiento(s)

LlamadaCasa ==
    \/ \E h \in Casas : CasaInit(h)
    \/ \E h \in Casas, o \in Dispositivos \cup {NoDispositivo} : AgregarDispositivo(h, o)
    \/ \E h \in Casas : MostrarTodos(h)
    \/ \E h \in Casas, e \in Escenas : EjecutarEscena(h, e)

Next ==
    \/ LlamadaLuz
    \/ LlamadaCamara
    \/ LlamadaSensor
    \/ LlamadaCasa
    \/ Seguir

Spec == Init /\ [][Next]_vars

\* The program with no camera constructed: no camera method can be called.
NextDosSensores ==
    \/ LlamadaLuz
    \/ LlamadaSensor
    \/ LlamadaCasa
    \/ Seguir

SpecDosSensores == InitDosSensores /\ [][NextDosSensores]_vars

\* Two registries sharing the devices; no camera constructed.
SpecDosCasas == InitDosCasas /\ [][NextDosSensores]_vars

\* ------------------------------------------------------------ properties
EstadosLuz == {"apagado", "encendido"}
EstadosCamara == {"apagado", "standby", "grabando"}
EstadosSensor == {"inactivo", "activo"}

EnRango(v) == v \in IntensidadMin .. IntensidadMax

\* The devices of registry h before the call (none when it has no list).
ListaAntes(h) ==
    IF TieneDispositivos(ultima.antes.casa[h])
    THEN ultima.antes.casa[h].dispositivos
    ELSE <<>>

EnLista(d, ds) == \E i \in 1 .. Len(ds) : ds[i] = d

\* Some sensor of registry h had its motion flag true before the call.
HabiaMovimiento(h) ==
    \E s \in Sensores :
        /\ EnLista(s, ListaAntes(h))
        /\ TieneMovimiento(ultima.antes.sensor[s])
        /\ ultima.antes.sensor[s].movimiento_detectado

SinCambios ==
    /\ luz = ultima.antes.luz
    /\ camara = ultima.antes.camara
    /\ sensor = ultima.antes.sensor
    /\ casa = ultima.antes.casa

EsAlerta == ultima.op = "casa.ejecutar_escena" /\ ultima.arg = "alerta_movimiento"

\* C1: after apagar() a camera is off ("apagado") and not recording,
\* whatever its state was before, recording included.
C1_ApagarDejaApagada ==
    \A c \in Camaras :
        (ultima.op = "camara.apagar" /\ ultima.obj = c)
            => (camara[c].estado = "apagado" /\ ~camara[c].grabando)

\* C2: a camera's recording flag is true exactly when its state is "grabando".
C2_GrabandoSiiEstado ==
    \A c \in Camaras : camara[c].grabando <=> (camara[c].estado = "grabando")

\* C3 as stated: a light whose state is off has intensity 0.
C3_ApagadaSinIntensidad ==
    \A l \in Luces : luz[l].estado = "apagado" => luz[l].intensidad = 0

\* C3 as amended: after apagar() a light is off with intensity 0, whatever
\* its state and intensity were before.
C3_ApagarReinicia ==
    \A l \in Luces :
        (ultima.op = "luz.apagar" /\ ultima.obj = l)
            => (luz[l].estado = "apagado" /\ luz[l].intensidad = 0)

\* C3 witness: apagar() has acted on a light that was on at a nonzero intensity.
C3_Testigo ==
    \E l \in Luces :
        /\ ultima.op = "luz.apagar" /\ ultima.obj = l
        /\ ultima.antes.luz[l].estado = "encendido"
        /\ ultima.antes.luz[l].intensidad = IntensidadTenue

\* C4: after the scene "alerta_movimiento" on a registry one of whose sensors
\* had its motion flag true, every light of the registry is on at intensity
\* 100 and every camera of the registry is recording.
C4_AlertaActivaTodo ==
    \A h \in Casas :
        (EsAlerta /\ ultima.obj = h /\ HabiaMovimiento(h))
            => /\ \A l \in Luces :
                    EnLista(l, ListaAntes(h))
                        => (luz[l].estado = "encendido"
                            /\ luz[l].intensidad = IntensidadAlerta)
               /\ \A c \in Camaras :
                    EnLista(c, ListaAntes(h)) => camara[c].estado = "grabando"

\* C5: the scene "alerta_movimiento" on a registry none of whose sensors has
\* its motion flag true changes no device and not the registry.
C5_SinMovimientoNadaCambia ==
    \A h \in Casas :
        (EsAlerta /\ ultima.obj = h /\ ~HabiaMovimiento(h)) => SinCambios

\* C5 witness: the scene has run and reported no motion on a registry holding
\* a sensor with its flag false and a light that is off.
C5_Testigo ==
    \E h \in Casas, s \in Sensores, l \in Luces :
        /\ EsAlerta /\ ultima.obj = h /\ ~HabiaMovimiento(h)
        /\ ultima.res = Ok /\ ultima.sal = "sin_movimiento"
        /\ EnLista(s, ListaAntes(h)) /\ EnLista(l, ListaAntes(h))
        /\ luz[l].estado = "apagado"

\* C6: ejecutar_escena with a name other than "alerta_movimiento" returns
\* without an error and changes no device and not the registry, whatever the
\* sensors' motion flags are.
C6_EscenaDesconocidaNadaCambia ==
    (ultima.op = "casa.ejecutar_escena" /\ ultima.arg # "alerta_movimiento")
        => (ultima.res = Ok /\ ultima.sal = "no_reconocida" /\ SinCambios)

\* C6 witness: an unknown scene has run on a registry holding a sensor whose
\* flag is true and a light that is off.
C6_Testigo ==
    \E h \in Casas, l \in Luces :
        /\ ultima.op = "casa.ejecutar_escena" /\ ultima.arg # "alerta_movimiento"
        /\ ultima.obj = h /\ HabiaMovimiento(h)
        /\ EnLista(l, ListaAntes(h))
        /\ luz[l].estado = "apagado"

\* C7: every device's state is one of its class's legal states: a light's in
\* {apagado, encendido}, a camera's in {apagado, standby, grabando}, a
\* sensor's in {inactivo, activo}.
C7_EstadosLegales ==
    /\ \A l \in Luces : luz[l].estado \in EstadosLuz
    /\ \A c \in Camaras : camara[c].estado \in EstadosCamara
    /\ \A s \in Sensores : sensor[s].estado \in EstadosSensor

\* C8: a light's intensity is in 0..100.
C8_IntensidadEnRango ==
    \A l \in Luces : EnRango(luz[l].intensidad)

\* C9: setting a light's intensity to a value outside 0..100 leaves the
\* light's intensity and state as they were.
C9_FueraDeRangoRechazado ==
    \A l \in Luces :
        (ultima.op = "luz.intensidad" /\ ultima.obj = l /\ ~EnRango(ultima.arg))
            => luz[l] = ultima.antes.luz[l]

\* C9 witness: a value above 100 has been offered to a light that is on.
C9_Testigo ==
    \E l \in Luces :
        /\ ultima.op = "luz.intensidad" /\ ultima.obj = l
        /\ ultima.arg > IntensidadMax
        /\ luz[l].estado = "encendido"
        /\ luz[l].intensidad = IntensidadTenue

\* C10: encender() turns a light on, at intensity 50 if its intensity was 0
\* and at its prior intensity otherwise.
C10_EncenderPorDefecto ==
    \A l \in Luces :
        (ultima.op = "luz.encender" /\ ultima.obj = l)
            => /\ luz[l].estado = "encendido"
               /\ luz[l].intensidad =
                    IF ultima.antes.luz[l].intensidad = 0
                    THEN IntensidadPorDefecto
                    ELSE ultima.antes.luz[l].intensidad

\* C10 witness: encender() has acted on a light that was off at intensity 0.
C10_Testigo ==
    \E l \in Luces :
        /\ ultima.op = "luz.encender" /\ ultima.obj = l
        /\ ultima.antes.luz[l].estado = "apagado"
        /\ ultima.antes.luz[l].intensidad = 0
        /\ luz[l].intensidad = IntensidadPorDefecto

\* C11: iniciar_grabacion() on a camera that is not in standby changes
\* nothing: an off camera stays off and not recording, a recording camera
\* stays as it was.
C11_IniciarSoloDesdeStandby ==
    \A c \in Camaras :
        (/\ ultima.op = "camara.iniciar_grabacion"
         /\ ultima.obj = c
         /\ ultima.antes.camara[c].estado # "standby")
            => /\ camara[c] = ultima.antes.camara[c]
               /\ ultima.antes.camara[c].estado = "apagado"
                    => (camara[c].estado = "apagado" /\ ~camara[c].grabando)

\* C11 witness: iniciar_grabacion() has been called on a camera that was off.
C11_Testigo ==
    \E c \in Camaras :
        /\ ultima.op = "camara.iniciar_grabacion" /\ ultima.obj = c
        /\ ultima.antes.camara[c].estado = "apagado"
        /\ camara[c].estado = "apagado"

\* C12: simular_movimiento() on a sensor that is not active (inactive, or
\* never powered on) leaves the sensor's state as it was, and its motion
\* flag is false after the call.
C12_SimularInactivoRechazado ==
    \A s \in Sensores :
        (/\ ultima.op = "sensor.simular_movimiento"
         /\ ultima.obj = s
         /\ ultima.antes.sensor[s].estado # "activo")
            => /\ sensor[s].estado = ultima.antes.sensor[s].estado
               /\ TieneMovimiento(sensor[s])
               /\ ~sensor[s].movimiento_detectado

\* C13: after encender() a sensor is active with its motion flag false, and
\* after apagar() it is inactive with its motion flag false, whatever its
\* state and flag were before.
C13_EncenderApagarReinician ==
    \A s \in Sensores :
        /\ (ultima.op = "sensor.encender" /\ ultima.obj = s)
            => /\ sensor[s].estado = "activo"
               /\ TieneMovimiento(sensor[s])
               /\ ~sensor[s].movimiento_detectado
        /\ (ultima.op = "sensor.apagar" /\ ultima.obj = s)
            => /\ sensor[s].estado = "inactivo"
               /\ TieneMovimiento(sensor[s])
               /\ ~sensor[s].movimiento_detectado

\* C13 witness: encender() has acted on a sensor whose motion flag was true.
C13_Testigo ==
    \E s \in Sensores :
        /\ ultima.op = "sensor.encender" /\ ultima.obj = s
        /\ TieneMovimiento(ultima.antes.sensor[s])
        /\ ultima.antes.sensor[s].movimiento_detectado
        /\ sensor[s].estado = "activo"

\* C14: detener_grabacion() on a camera whose state is not "grabando"
\* changes nothing; on a camera whose state is "grabando" it leaves the
\* camera in standby and not recording.
C14_DetenerGrabacion ==
    \A c \in Camaras :
        (ultima.op = "camara.detener_grabacion" /\ ultima.obj = c)
            => IF ultima.antes.camara[c].estado = "grabando"
               THEN camara[c].estado = "standby" /\ ~camara[c].grabando
               ELSE camara[c] = ultima.antes.camara[c]

\* The ids of the lines mostrar_todos printed, in order.
IdsMostrados == [i \in 1 .. Len(ultima.sal) |-> ultima.sal[i].id]

\* How often device d occurs in list ds.
Veces(d, ds) == Cardinality({i \in 1 .. Len(ds) : ds[i] = d})

\* C15: a registry's list is the accepted devices in the order they were
\* added (agregar_dispositivo appends an accepted device and changes nothing
\* for a rejected object, and no call but _init_ changes the list otherwise),
\* and mostrar_todos visits every device of the list in that order and
\* changes no device and not the registry.
C15_OrdenDeInsercion ==
    \A h \in Casas :
        /\ (/\ ultima.op = "casa.agregar_dispositivo"
            /\ ultima.obj = h
            /\ TieneDispositivos(ultima.antes.casa[h]))
            => /\ TieneDispositivos(casa[h])
               /\ casa[h].dispositivos =
                    IF ultima.arg \in Dispositivos
                    THEN Append(ultima.antes.casa[h].dispositivos, ultima.arg)
                    ELSE ultima.antes.casa[h].dispositivos
        /\ (~Libre /\ ultima.op \notin {"casa.agregar_dispositivo", "casa._init_"})
            => casa = ultima.antes.casa
        /\ (/\ ultima.op = "casa.mostrar_todos"
            /\ ultima.obj = h
            /\ TieneDispositivos(casa[h]))
            => /\ SinCambios
               /\ ultima.res = Ok
               /\ IdsMostrados = casa[h].dispositivos

\* C16: every device is in at most one registry, and at most once in it.
C16_UnSoloRegistro ==
    \A d \in Dispositivos :
        /\ \A h \in Casas :
                TieneDispositivos(casa[h]) => Veces(d, casa[h].dispositivos) <= 1
        /\ \A h1, h2 \in Casas :
                (/\ h1 # h2
                 /\ TieneDispositivos(casa[h1])
                 /\ TieneDispositivos(casa[h2]))
                    => ~(/\ Veces(d, casa[h1].dispositivos) > 0
                         /\ Veces(d, casa[h2].dispositivos) > 0)

OperacionesCamara ==
    {"camara.encender", "camara.apagar", "camara.iniciar_grabacion",
     "camara.detener_grabacion"}

\* C17: no single camera operation (encender, apagar, iniciar_grabacion,
\* detener_grabacion) takes a camera from off to recording: each one that
\* enters "grabando" starts from "standby".
C17_GrabarSoloDesdeStandby ==
    \A c \in Camaras :
        (/\ ultima.op \in OperacionesCamara
         /\ ultima.obj = c
         /\ camara[c].estado = "grabando"
         /\ ultima.antes.camara[c].estado # "grabando")
            => ultima.antes.camara[c].estado = "standby"

\* C17 witness: iniciar_grabacion() has taken a camera from standby to recording.
C17_Testigo ==
    \E c \in Camaras :
        /\ ultima.op = "camara.iniciar_grabacion" /\ ultima.obj = c
        /\ ultima.antes.camara[c].estado = "standby"
        /\ camara[c].estado = "grabando"

\* Position i of list ds held, before the call, a sensor whose flag was true.
ConMovimientoEn(ds, i) ==
    /\ ds[i] \in Sensores
    /\ TieneMovimiento(ultima.antes.sensor[ds[i]])
    /\ ultima.antes.sensor[ds[i]].movimiento_detectado

\* C18: the sensor the scene "alerta_movimiento" reports is the first one,
\* in the registry's order, whose motion flag is true: other devices and
\* sensors whose flag is false are passed over.
C18_PrimerSensorEnOrden ==
    \A h \in Casas :
        (EsAlerta /\ ultima.obj = h /\ ultima.res = Ok)
            => IF HabiaMovimiento(h)
               THEN \E i \in 1 .. Len(ListaAntes(h)) :
                        /\ ultima.sal = ListaAntes(h)[i]
                        /\ ConMovimientoEn(ListaAntes(h), i)
                        /\ \A j \in 1 .. i - 1 : ~ConMovimientoEn(ListaAntes(h), j)
               ELSE ultima.sal = "sin_movimiento"

\* C18 witness: the scene has run on a registry whose list is a light
\* followed by two sensors, both with the flag true, and reported the first
\* of the two.
C18_Testigo ==
    \E h \in Casas :
        /\ EsAlerta /\ ultima.obj = h /\ ultima.res = Ok
        /\ Len(ListaAntes(h)) = 3
        /\ ListaAntes(h)[1] \in Luces
        /\ ConMovimientoEn(ListaAntes(h), 2)
        /\ ConMovimientoEn(ListaAntes(h), 3)
        /\ ListaAntes(h)[2] # ListaAntes(h)[3]
        /\ ultima.sal = ListaAntes(h)[2]

\* What running "alerta_movimiento" once more on registry h, right now, gives.
OtraVez(h) == CasaInteligente_ejecutar_escena(casa[h], "alerta_movimiento", Foto)

\* C19: the scene "alerta_movimiento" changes no sensor, neither its state
\* nor its motion flag; so a second run right after it reports the same
\* outcome and leaves every device as the first run left it.
C19_AlertaNoSeConsume ==
    \A h \in Casas :
        (EsAlerta /\ ultima.obj = h)
            => /\ sensor = ultima.antes.sensor
               /\ OtraVez(h).res = ultima.res
               /\ OtraVez(h).sal = ultima.sal
               /\ OtraVez(h).luz = luz
               /\ OtraVez(h).camara = camara
               /\ OtraVez(h).sensor = sensor

\* C19 witness: the scene has found motion and switched on a light that was
\* off and a camera that was off.
C19_Testigo ==
    \E h \in Casas, l \in Luces, c \in Camaras :
        /\ EsAlerta /\ ultima.obj = h /\ ultima.res = Ok
        /\ HabiaMovimiento(h)
        /\ EnLista(l, ListaAntes(h)) /\ EnLista(c, ListaAntes(h))
        /\ ultima.antes.luz[l].estado = "apagado"
        /\ ultima.antes.camara[c].estado = "apagado"
        /\ luz[l].estado = "encendido"
        /\ camara[c].estado = "grabando"

====
